---- MODULE Spec2Model ----
(***************************************************************************)
(* Voice-channel pool of the University Discord bot.                       *)
(*                                                                         *)
(* Modelled code:                                                          *)
(*   handlers/voice_channel_manager.py   VoiceChannelManagerHandler        *)
(*   services/voice_channel_manager.py   VoiceChannelManagerService        *)
(*   modules/voice_channel_manager/cog.py, config.py                       *)
(*   utils/voice_channels.py             get_voice_channel_by_name         *)
(*                                                                         *)
(* Scheduling is asyncio's: one step of the model is the code a task runs  *)
(* between two suspension points.  A remote call (channel.delete,          *)
(* guild.create_voice_channel) is issued in one step and completes, with   *)
(* its effect on the category, in a later step.  asyncio.Lock.acquire on a *)
(* free lock with no waiters does not suspend.                             *)
(***************************************************************************)
EXTENDS Integers, Sequences, FiniteSets, TLC

\* ------------------------------------------------------------------ bounds
MaxChannels == 4
InitChannels == 3
NumHumans == 1
NumBots == 1
MaxEvents == 2

ChannelIds == 1..MaxChannels

\* a voice channel of the guild that is not in the managed category
Outside == MaxChannels + 1
Members == 1..(NumHumans + NumBots)

\* member.bot
IsBot(m) == m > NumHumans

\* ------------------------------------------------------------------- names
\* A channel name is a sequence of characters.
Whitespace == {" ", "\t", "\n"}

\* "{number}"
Placeholder == <<"{", "n", "u", "m", "b", "e", "r", "}">>

\* str(number)
RECURSIVE Str(_)
Str(n) == IF n < 10 THEN <<ToString(n)>>
          ELSE Str(n \div 10) \o <<ToString(n % 10)>>

\* str.replace(old, new)
RECURSIVE Replace(_, _, _)
Replace(s, old, new) ==
    IF Len(s) < Len(old) THEN s
    ELSE IF SubSeq(s, 1, Len(old)) = old
         THEN new \o Replace(SubSeq(s, Len(old) + 1, Len(s)), old, new)
         ELSE <<Head(s)>> \o Replace(Tail(s), old, new)

\* '"{number}" in s'
RECURSIVE Contains(_, _)
Contains(s, sub) ==
    IF Len(s) < Len(sub) THEN FALSE
    ELSE SubSeq(s, 1, Len(sub)) = sub \/ Contains(Tail(s), sub)

\* not name.strip()
Blank(name) == \A i \in 1..Len(name) : name[i] \in Whitespace

\* ------------------------------------------------------------------ config
NameA == <<"A">>
NameB == <<"B">>
NameBlank == <<" ">>
OverflowNumbered == <<"V">> \o Placeholder
OverflowPlain == <<"V">>

Configs ==
    { [ignore_bots |-> TRUE, channel_order_strategy |-> "first available",
       ensure_unique_names |-> TRUE, overflow_channel_name |-> OverflowNumbered,
       available_channel_names |-> <<NameA, NameB>>],
      [ignore_bots |-> FALSE, channel_order_strategy |-> "random",
       ensure_unique_names |-> TRUE, overflow_channel_name |-> OverflowNumbered,
       available_channel_names |-> <<NameA, NameB>>],
      [ignore_bots |-> FALSE, channel_order_strategy |-> "first available",
       ensure_unique_names |-> FALSE, overflow_channel_name |-> OverflowPlain,
       available_channel_names |-> <<NameA>>],
      [ignore_bots |-> FALSE, channel_order_strategy |-> "first available",
       ensure_unique_names |-> FALSE, overflow_channel_name |-> OverflowPlain,
       available_channel_names |-> <<NameA, NameBlank>>],
      [ignore_bots |-> FALSE, channel_order_strategy |-> "first available",
       ensure_unique_names |-> TRUE, overflow_channel_name |-> OverflowPlain,
       available_channel_names |-> <<NameA>>] }

\* VoiceChannelManagerConfig._validate_overflow_channel_name
ValidConfig(c) ==
    ~(c.ensure_unique_names /\ ~Contains(c.overflow_channel_name, Placeholder))

\* the name channel c carries when the bot starts
InitName(c) == IF c = 1 THEN NameA
               ELSE IF c = 2 THEN NameB
               ELSE <<"V">> \o Str(c - 2)

VARIABLES
    cfg,          \* the loaded VoiceChannelManagerConfig
    channels,     \* category.voice_channels: channel id -> name
    loc,          \* member -> id of the voice channel the member is in, 0 = none
    spawnQ,       \* tasks created on the event loop that have not run yet
    lockWaiters,  \* tasks suspended in _channel_lock.acquire(), FIFO
    cur,          \* the task that holds _channel_lock
    sweep,        \* the two check_voice_channels() runs: "init" and "ready"
    lastSweep,    \* the check_voice_channels() run that has just returned
    escaped,      \* kinds of task out of which an exception has propagated
    failed,       \* some remote call has failed
    hung,         \* the event loop is stuck in a loop that never ends
    swept,        \* some check_voice_channels() run has sent a remote call
    events,       \* number of gateway events delivered so far
    start,        \* the category when the bot started
    tally,        \* channels the handlers have created, counted in RaceSpec only
    alloc,        \* the last _get_next_channel_name() call made in AllocSpec
    lastDelete,   \* the delete_channel() call that has just returned
    bound,        \* VoiceChannelManager.__init__: its inputs and how it ended
    cmd           \* the channel of the member who uses a command, and the command

vars == <<cfg, channels, loc, spawnQ, lockWaiters, cur, sweep, lastSweep,
          escaped, failed, hung, swept, events, start, tally, alloc,
          lastDelete, bound, cmd>>

\* --------------------------------------------------------------- occupancy
\* channel.members
MembersOf(l, c) == {m \in Members : l[m] = c}

\* VoiceChannelManagerService.is_channel_empty
IsChannelEmpty(l, c) ==
    ~\E m \in MembersOf(l, c) : ~(cfg.ignore_bots /\ IsBot(m))

\* every channel passes for a channel of the managed category
InManagedCategoryAlways(c) == TRUE

\* VoiceChannelManagerService.is_channel_in_managed_category; the channel
\* object of a deleted channel keeps its category
IsChannelInManagedCategory(c) == c # Outside

\* VoiceChannelManagerService.empty_voice_channels
EmptyVoiceChannels(chs, l) == {c \in DOMAIN chs : MembersOf(l, c) = {}}

\* list(self.empty_voice_channels): the category lists its channels in order
RECURSIVE SortedSeq(_)
SortedSeq(S) ==
    IF S = {} THEN <<>>
    ELSE LET lo == CHOOSE x \in S : \A y \in S : x <= y
         IN <<lo>> \o SortedSeq(S \ {lo})

\* ---------------------------------------------------------- name allocator
\* utils.voice_channels.get_voice_channel_by_name, after its ValueError check
GetVoiceChannelByName(chs, name) == \E c \in DOMAIN chs : chs[c] = name

Named(name) == [kind |-> "name", name |-> name]
ValueError == [kind |-> "ValueError", name |-> <<>>]
Diverges == [kind |-> "diverges", name |-> <<>>]

\* VoiceChannelManagerService._get_overflow_name, from `number` on.  The
\* loop has no exit but a free name; with k channels one of the first k+1
\* numbered names is free unless the numbered names are all the same name.
RECURSIVE OverflowFrom(_, _)
OverflowFrom(chs, number) ==
    LET name == Replace(cfg.overflow_channel_name, Placeholder, Str(number))
    IN IF Blank(name) THEN ValueError
       ELSE IF ~GetVoiceChannelByName(chs, name) THEN Named(name)
       ELSE IF number > Cardinality(DOMAIN chs) THEN Diverges
       ELSE OverflowFrom(chs, number + 1)

\* the first numbered name is returned without looking for a channel of that name
GetOverflowNameUnchecked(chs) ==
    Named(Replace(cfg.overflow_channel_name, Placeholder, Str(1)))

GetOverflowName(chs) == OverflowFrom(chs, 1)

\* the loop of _get_first_available_channel_name / _get_random_channel_name
RECURSIVE ScanNames(_, _, _)
ScanNames(chs, names, i) ==
    IF i > Len(names) THEN GetOverflowName(chs)
    ELSE IF Blank(names[i]) THEN ValueError
    ELSE IF ~GetVoiceChannelByName(chs, names[i]) THEN Named(names[i])
    ELSE ScanNames(chs, names, i + 1)

\* VoiceChannelManagerService._get_first_available_channel_name
GetFirstAvailableChannelName(chs) ==
    ScanNames(chs, cfg.available_channel_names, 1)

\* random.sample(available_names, len(available_names))
Samples(names) ==
    LET n == Len(names)
        Perms == {p \in [1..n -> 1..n] : \A i, j \in 1..n : p[i] = p[j] => i = j}
    IN {[i \in 1..n |-> names[p[i]]] : p \in Perms}

\* VoiceChannelManagerService._get_random_channel_name: every outcome the
\* random source allows
GetRandomChannelName(chs) ==
    {ScanNames(chs, names, 1) : names \in Samples(cfg.available_channel_names)}

\* VoiceChannelManagerService._get_next_channel_name
GetNextChannelName(chs) ==
    IF cfg.channel_order_strategy = "random"
    THEN GetRandomChannelName(chs)
    ELSE {GetFirstAvailableChannelName(chs)}

\* no delete_channel() call has just returned
NoDelete == [who |-> "none", ch |-> 0, response |-> "none", raised |-> FALSE]

\* the cog is loaded: the id named a category the bot may manage
Loaded == [target |-> "category", manage_channels |-> TRUE, state |-> "loaded",
           error |-> "none", cause |-> "none", handler |-> TRUE]

\* no command is in use
NoCmd == [pc |-> "none"]

\* no _get_next_channel_name() call has been recorded
NoAlloc == [before |-> <<>>, result |-> [kind |-> "none", name |-> <<>>]]

\* ------------------------------------------------------------------- tasks
Task(kind, ch) == [kind |-> kind, ch |-> ch]

\* nobody holds _channel_lock
Idle == [kind |-> "none", ch |-> 0, pc |-> "idle", name |-> <<>>]

Running(kind, ch, pc, name) == [kind |-> kind, ch |-> ch, pc |-> pc, name |-> name]

\* a check_voice_channels() coroutine that is not running
SweepIdle == [pc |-> "idle", pre |-> {}, found |-> <<>>, toSend |-> {},
              sent |-> {}, ok |-> {}, bad |-> {}, name |-> <<>>,
              alone |-> FALSE, second |-> FALSE, prevWorked |-> FALSE]

NoSweep == [who |-> "none", pre |-> {}, found |-> <<>>, ok |-> {}, bad |-> {},
            created |-> 0, createBad |-> FALSE, raised |-> FALSE,
            alone |-> FALSE, second |-> FALSE, prevWorked |-> FALSE]

\* what a check_voice_channels() run leaves behind when it returns
Summary(w, s, created, createBad, raised) ==
    [who |-> w, pre |-> s.pre, found |-> s.found, ok |-> s.ok, bad |-> s.bad,
     created |-> created, createBad |-> createBad, raised |-> raised,
     alone |-> s.alone, second |-> s.second, prevWorked |-> s.prevWorked]

\* the run returned with every remote call succeeding and nothing else running
Clean(ls) ==
    /\ ls.who # "none"
    /\ ls.alone /\ ls.bad = {} /\ ~ls.createBad /\ ~ls.raised

\* the run deleted or created a channel
Worked(ls) == ls.ok # {} \/ ls.created = 1

Range(f) == {f[i] : i \in DOMAIN f}

\* empty_channels[0:]: the sweep deletes every empty channel
SurplusAll(found) == Range(found)

\* empty_channels[1:]
Surplus(found) == Range(Tail(found))

\* another task or a membership change ran while the sweeps were in progress
Disturb(sw) == [w \in DOMAIN sw |-> [sw[w] EXCEPT !.alone = FALSE]]

\* the lock can be taken without suspending (asyncio.Lock.acquire fast path)
LockFree == cur = Idle /\ lockWaiters = <<>>

\* channel ids some task still refers to
Referenced ==
    {t.ch : t \in Range(spawnQ) \cup Range(lockWaiters)} \cup {cur.ch}
    \cup UNION {sweep[w].toSend \cup sweep[w].sent : w \in DOMAIN sweep}

FreeIds == ChannelIds \ (DOMAIN channels \cup Referenced)

NewId == CHOOSE c \in FreeIds : \A d \in FreeIds : c <= d

\* the platform's view after channel c is gone
Without(chs, c) == [d \in DOMAIN chs \ {c} |-> chs[d]]

With(chs, c, name) == [d \in DOMAIN chs \cup {c} |-> IF d = c THEN name ELSE chs[d]]

Disconnect(l, c) == [m \in Members |-> IF l[m] = c THEN 0 ELSE l[m]]

\* the voice-state updates the platform sends for the members of a deleted channel
RECURSIVE LeaveTasks(_, _)
LeaveTasks(c, n) == IF n = 0 THEN <<>> ELSE <<Task("leave", c)>> \o LeaveTasks(c, n - 1)

Kicked(chs, l, c) ==
    IF c \in DOMAIN chs THEN LeaveTasks(c, Cardinality(MembersOf(l, c))) ELSE <<>>

\* -------------------------------------------------------------------- Init
Init ==
    /\ cfg \in {c \in Configs : ValidConfig(c)}
    /\ \E k \in 0..InitChannels :
          /\ k <= MaxChannels
          /\ channels = [c \in 1..k |-> InitName(c)]
          /\ loc \in [Members -> 0..k]
    /\ spawnQ = <<Task("init", 0)>>
    /\ lockWaiters = <<>>
    /\ cur = Idle
    /\ sweep = [w \in {"init", "ready"} |-> SweepIdle]
    /\ lastSweep = NoSweep
    /\ escaped = {}
    /\ failed = FALSE
    /\ hung = FALSE
    /\ swept = FALSE
    /\ events = 0
    /\ start = [chs |-> DOMAIN channels,
                empty |-> {c \in DOMAIN channels : IsChannelEmpty(loc, c)}]
    /\ tally = -1
    /\ alloc = NoAlloc
    /\ lastDelete = NoDelete
    /\ bound = Loaded
    /\ cmd = NoCmd

\* ------------------------------------------------------------- environment
\* The gateway delivers a voice-state update: member m moves to channel `to`
\* (0 = disconnects).  on_voice_state_update gathers the leave and the join
\* sub-handler, in that order.
MemberMove(m, to) ==
    /\ lastDelete' = NoDelete
    /\ bound.handler
    /\ ~hung /\ events < MaxEvents
    /\ to \in DOMAIN channels \cup {0}
    /\ to # loc[m]
    /\ loc' = [loc EXCEPT ![m] = to]
    /\ spawnQ' = spawnQ
                 \o (IF loc[m] # 0 THEN <<Task("leave", loc[m])>> ELSE <<>>)
                 \o (IF to # 0 THEN <<Task("join", to)>> ELSE <<>>)
    /\ events' = events + 1
    /\ sweep' = Disturb(sweep)
    /\ lastSweep' = NoSweep
    /\ UNCHANGED <<cfg, alloc, bound, cmd, channels, lockWaiters, cur, escaped, failed, hung,
                   swept, start, tally>>

\* The gateway delivers `ready`: VoiceChannelManager._on_ready is scheduled.
ReadyEvent ==
    /\ lastDelete' = NoDelete
    /\ bound.handler
    /\ ~hung /\ events < MaxEvents
    /\ spawnQ' = Append(spawnQ, Task("ready", 0))
    /\ events' = events + 1
    /\ UNCHANGED <<cfg, alloc, bound, cmd, channels, loc, lockWaiters, cur, sweep, lastSweep,
                   escaped, failed, hung, swept, start, tally>>

\* ------------------------------------------------- code run under the lock
\* VoiceChannelManagerService.create_channel up to its await: the name is
\* allocated outside the try block, then guild.create_voice_channel is sent.
\* A ValueError of get_voice_channel_by_name is no VoiceChannelManagerException:
\* it leaves the handler through `async with`, which releases the lock.
CreateAttempt(kind, c, chs) ==
    \E r \in GetNextChannelName(chs) :
        /\ cur' = IF r.kind = "name" THEN Running(kind, c, "create", r.name)
                  ELSE IF r.kind = "ValueError" THEN Idle
                  ELSE Running(kind, c, "hung", <<>>)
        /\ escaped' = IF r.kind = "ValueError" THEN escaped \cup {kind} ELSE escaped
        /\ hung' = (r.kind = "diverges")

\* the handlers create without looking at the empty channels
NoneEmptyUnchecked(chs, l) == TRUE

\* `not any(self.service.empty_voice_channels)`
NoneEmpty(chs, l) == EmptyVoiceChannels(chs, l) = {}

\* _handle_channel_leave from `async with self._channel_lock` to the await in
\* delete_channel: the delete is sent whatever the other channels look like
LeaveLocked(c) ==
    /\ cur' = Running("leave", c, "delete", <<>>)
    /\ UNCHANGED <<escaped, hung>>

\* _handle_channel_join from `async with self._channel_lock` on
JoinLocked(c) ==
    IF NoneEmpty(channels, loc)
    THEN CreateAttempt("join", c, channels)
    ELSE cur' = Idle /\ UNCHANGED <<escaped, hung>>

DisturbOther(sw, w) ==
    [x \in DOMAIN sw |-> IF x = w THEN sw[x] ELSE [sw[x] EXCEPT !.alone = FALSE]]

\* nothing else is between an observation and the end of its remote calls
Quiet(w) == cur = Idle /\ \A x \in DOMAIN sweep \ {w} : sweep[x].pc = "idle"

\* VoiceChannelManagerService.check_voice_channels up to its first await
SweepBegin(w) ==
    LET found == SortedSeq(EmptyVoiceChannels(channels, loc))
        s0 == [SweepIdle EXCEPT !.pre = DOMAIN channels, !.found = found,
                                !.alone = Quiet(w), !.second = Clean(lastSweep),
                                !.prevWorked = Worked(lastSweep)]
    IN IF Len(found) > 1
       THEN /\ sweep' = [DisturbOther(sweep, w) EXCEPT ![w] =
                            [s0 EXCEPT !.pc = "deleting",
                                       !.toSend = Surplus(found)]]
            /\ lastSweep' = NoSweep
            /\ swept' = TRUE
            /\ UNCHANGED <<escaped, hung>>
       ELSE IF Len(found) = 0
       THEN \E r \in GetNextChannelName(channels) :
               /\ sweep' = [DisturbOther(sweep, w) EXCEPT ![w] =
                               IF r.kind = "name"
                               THEN [s0 EXCEPT !.pc = "creating", !.name = r.name]
                               ELSE IF r.kind = "ValueError" THEN SweepIdle
                               ELSE [s0 EXCEPT !.pc = "hung"]]
               /\ lastSweep' = IF r.kind = "ValueError"
                               THEN Summary(w, s0, 0, FALSE, TRUE) ELSE NoSweep
               /\ escaped' = IF r.kind = "ValueError" THEN escaped \cup {w}
                             ELSE escaped
               /\ hung' = (r.kind = "diverges")
               /\ swept' = (swept \/ r.kind = "name")
       ELSE /\ sweep' = DisturbOther(sweep, w)
            /\ lastSweep' = Summary(w, s0, 0, FALSE, FALSE)
            /\ UNCHANGED <<escaped, hung, swept>>

\* VoiceChannelManagerHandler.on_ready from `async with self._channel_lock` on
ReadyLocked ==
    /\ SweepBegin("ready")
    /\ cur' = IF sweep'["ready"].pc = "idle" THEN Idle
              ELSE Running("ready", 0, "sweep", <<>>)

\* ------------------------------------------------------------ task starts
\* what a handler step leaves alone
HandlerFrame ==
    /\ sweep' = Disturb(sweep)
    /\ lastSweep' = NoSweep
    /\ lastDelete' = NoDelete
    /\ UNCHANGED <<cfg, alloc, bound, cmd, swept, events, start, tally>>

\* cog.py:55  self.bot.loop.create_task(self.service.check_voice_channels())
\* runs: no lock is taken
InitStart ==
    /\ lastDelete' = NoDelete
    /\ ~hung
    /\ spawnQ # <<>> /\ Head(spawnQ).kind = "init"
    /\ spawnQ' = Tail(spawnQ)
    /\ SweepBegin("init")
    /\ UNCHANGED <<cfg, alloc, bound, cmd, channels, loc, lockWaiters, cur, failed, events, start, tally>>

\* VoiceChannelManagerHandler._handle_channel_leave up to its first await
LeaveStart ==
    /\ ~hung
    /\ spawnQ # <<>> /\ Head(spawnQ).kind = "leave"
    /\ spawnQ' = Tail(spawnQ)
    /\ LET c == Head(spawnQ).ch
       IN IF ~IsChannelInManagedCategory(c) \/ ~IsChannelEmpty(loc, c)
          THEN UNCHANGED <<lockWaiters, cur, escaped, hung>>
          ELSE IF LockFree
          THEN LeaveLocked(c) /\ UNCHANGED lockWaiters
          ELSE /\ lockWaiters' = Append(lockWaiters, Head(spawnQ))
               /\ UNCHANGED <<cur, escaped, hung>>
    /\ HandlerFrame
    /\ UNCHANGED <<channels, loc, failed>>

\* _handle_channel_leave resumes with the lock
LeaveResume ==
    /\ ~hung
    /\ cur = Idle
    /\ lockWaiters # <<>> /\ Head(lockWaiters).kind = "leave"
    /\ lockWaiters' = Tail(lockWaiters)
    /\ LeaveLocked(Head(lockWaiters).ch)
    /\ HandlerFrame
    /\ UNCHANGED <<channels, loc, spawnQ, failed>>

\* VoiceChannelManagerHandler._handle_channel_join up to its first await
JoinStart ==
    /\ ~hung
    /\ spawnQ # <<>> /\ Head(spawnQ).kind = "join"
    /\ spawnQ' = Tail(spawnQ)
    /\ IF ~IsChannelInManagedCategory(Head(spawnQ).ch)
       THEN UNCHANGED <<lockWaiters, cur, escaped, hung>>
       ELSE IF LockFree
       THEN JoinLocked(Head(spawnQ).ch) /\ UNCHANGED lockWaiters
       ELSE /\ lockWaiters' = Append(lockWaiters, Head(spawnQ))
            /\ UNCHANGED <<cur, escaped, hung>>
    /\ HandlerFrame
    /\ UNCHANGED <<channels, loc, failed>>

\* _handle_channel_join resumes with the lock
JoinResume ==
    /\ ~hung
    /\ cur = Idle
    /\ lockWaiters # <<>> /\ Head(lockWaiters).kind = "join"
    /\ lockWaiters' = Tail(lockWaiters)
    /\ JoinLocked(Head(lockWaiters).ch)
    /\ HandlerFrame
    /\ UNCHANGED <<channels, loc, spawnQ, failed>>

\* VoiceChannelManagerHandler.on_ready up to its first await
ReadyStart ==
    /\ lastDelete' = NoDelete
    /\ ~hung
    /\ spawnQ # <<>> /\ Head(spawnQ).kind = "ready"
    /\ spawnQ' = Tail(spawnQ)
    /\ IF LockFree
       THEN ReadyLocked /\ UNCHANGED lockWaiters
       ELSE /\ lockWaiters' = Append(lockWaiters, Head(spawnQ))
            /\ UNCHANGED <<cur, sweep, lastSweep, escaped, hung, swept>>
    /\ UNCHANGED <<cfg, alloc, bound, cmd, channels, loc, failed, events, start, tally>>

\* on_ready resumes with the lock
ReadyResume ==
    /\ lastDelete' = NoDelete
    /\ ~hung
    /\ cur = Idle
    /\ lockWaiters # <<>> /\ Head(lockWaiters).kind = "ready"
    /\ lockWaiters' = Tail(lockWaiters)
    /\ ReadyLocked
    /\ UNCHANGED <<cfg, alloc, bound, cmd, channels, loc, spawnQ, failed, events, start, tally>>

\* ---------------------------------------------------- remote completions
Outcomes == {"ok", "fail"}

\* what the platform may answer to channel.delete(): NotFound for a channel
\* that is gone, any other HTTPException at any time
PlatformDelete(chs, c) ==
    IF c \in DOMAIN chs THEN {"ok", "HTTPException"}
    ELSE {"NotFound", "HTTPException"}

\* NotFound is re-raised like any other HTTPException
DeleteRaisesOnMissing(response) == response # "ok"

\* delete_channel: `except NotFound: pass`, `except HTTPException: raise
\* VoiceChannelManagerException`
DeleteRaises(response) == response = "HTTPException"

\* what the caller of delete_channel sees
DeleteOutcome(response) == IF DeleteRaises(response) THEN "fail" ELSE "ok"

\* `await self.service.delete_channel(channel)` returns in the leave handler
\* (NotFound counts as done, any other HTTPException is caught as a
\* VoiceChannelManagerException), then the handler re-checks the empty
\* channels and may send a create
LeaveDeleteDone ==
    /\ ~hung
    /\ cur.kind = "leave" /\ cur.pc = "delete"
    /\ \E response \in PlatformDelete(channels, cur.ch) :
          LET c == cur.ch
              outcome == DeleteOutcome(response)
              chs2 == IF outcome = "ok" THEN Without(channels, c) ELSE channels
              loc2 == IF outcome = "ok" THEN Disconnect(loc, c) ELSE loc
          IN /\ channels' = chs2
             /\ loc' = loc2
             /\ spawnQ' = spawnQ \o (IF outcome = "ok"
                                     THEN Kicked(channels, loc, c) ELSE <<>>)
             /\ failed' = (failed \/ outcome = "fail")
             /\ lastDelete' = [who |-> "leave", ch |-> c, response |-> response,
                               raised |-> DeleteRaises(response)]
             /\ IF NoneEmpty(chs2, loc2)
                THEN CreateAttempt("leave", c, chs2)
                ELSE cur' = Idle /\ UNCHANGED <<escaped, hung>>
    /\ sweep' = Disturb(sweep)
    /\ lastSweep' = NoSweep
    /\ UNCHANGED <<cfg, alloc, bound, cmd, swept, events, start, tally>>
    /\ UNCHANGED lockWaiters

\* `await self.service.create_channel()` returns in a join or leave handler;
\* the handler ends and the lock is released
CreateDone ==
    /\ lastDelete' = NoDelete
    /\ ~hung
    /\ cur.pc = "create"
    /\ \E outcome \in Outcomes :
          /\ outcome = "ok" => FreeIds # {}
          /\ channels' = IF outcome = "ok"
                         THEN With(channels, NewId, cur.name) ELSE channels
          /\ failed' = (failed \/ outcome = "fail")
          /\ tally' = IF tally >= 0 /\ outcome = "ok" THEN tally + 1 ELSE tally
    /\ cur' = Idle
    /\ sweep' = Disturb(sweep)
    /\ lastSweep' = NoSweep
    /\ UNCHANGED <<cfg, alloc, bound, cmd, loc, spawnQ, lockWaiters, escaped, hung, swept, events,
                   start>>

\* The platform never answers the call a handler awaits.  delete_channel and
\* create_channel await channel.delete() and guild.create_voice_channel()
\* directly, with no asyncio.wait_for around them: the handler stays suspended
\* inside `async with self._channel_lock`.
RemoteSilent ==
    /\ ~hung
    /\ cur.pc \in {"delete", "create"}
    /\ cur' = [cur EXCEPT !.pc = "noreply"]
    /\ HandlerFrame
    /\ UNCHANGED <<channels, loc, spawnQ, lockWaiters, escaped, failed, hung>>

\* one of the delete_channel coroutines gathered by check_voice_channels
\* reaches `await channel.delete()`
SweepSend(w, c) ==
    /\ lastDelete' = NoDelete
    /\ ~hung
    /\ sweep[w].pc = "deleting" /\ c \in sweep[w].toSend
    /\ sweep' = [DisturbOther(sweep, w) EXCEPT ![w].toSend = @ \ {c},
                                               ![w].sent = @ \cup {c}]
    /\ lastSweep' = NoSweep
    /\ UNCHANGED <<cfg, alloc, bound, cmd, channels, loc, spawnQ, lockWaiters, cur, escaped,
                   failed, hung, swept, events, start, tally>>

\* asyncio.gather without return_exceptions: the first exception ends the wait
GatherFirstError(s) == (s.toSend = {} /\ s.sent = {}) \/ s.bad # {}

\* asyncio.gather(..., return_exceptions=True) returns once every gathered
\* delete has returned or raised
GatherDone(s) == s.toSend = {} /\ s.sent = {}

\* one gathered delete returns; gather(return_exceptions=True) keeps its
\* exception.  When the last one has returned check_voice_channels returns.
SweepDeleteDone(w, c) ==
    /\ ~hung
    /\ sweep[w].pc = "deleting" /\ c \in sweep[w].sent
    /\ \E response \in PlatformDelete(channels, c) :
          LET outcome == DeleteOutcome(response)
              s1 == [sweep[w] EXCEPT
                        !.sent = @ \ {c},
                        !.ok = IF outcome = "ok" THEN @ \cup {c} ELSE @,
                        !.bad = IF outcome = "fail" THEN @ \cup {c} ELSE @]
              done == GatherDone(s1)
          IN /\ channels' = IF outcome = "ok" THEN Without(channels, c)
                            ELSE channels
             /\ loc' = IF outcome = "ok" THEN Disconnect(loc, c) ELSE loc
             /\ spawnQ' = spawnQ \o (IF outcome = "ok"
                                     THEN Kicked(channels, loc, c) ELSE <<>>)
             /\ failed' = (failed \/ outcome = "fail")
             /\ sweep' = [DisturbOther(sweep, w) EXCEPT ![w] =
                             IF done THEN SweepIdle ELSE s1]
             /\ lastSweep' = IF done THEN Summary(w, s1, 0, FALSE, FALSE)
                             ELSE NoSweep
             /\ cur' = IF done /\ w = "ready" THEN Idle ELSE cur
             /\ lastDelete' = [who |-> w, ch |-> c, response |-> response,
                               raised |-> DeleteRaises(response)]
    /\ UNCHANGED <<cfg, alloc, bound, cmd, lockWaiters, escaped, hung, swept, events, start, tally>>

\* `await self.create_channel()` returns in check_voice_channels
SweepCreateDone(w) ==
    /\ lastDelete' = NoDelete
    /\ ~hung
    /\ sweep[w].pc = "creating"
    /\ \E outcome \in Outcomes :
          /\ outcome = "ok" => FreeIds # {}
          /\ channels' = IF outcome = "ok"
                         THEN With(channels, NewId, sweep[w].name) ELSE channels
          /\ failed' = (failed \/ outcome = "fail")
          /\ lastSweep' = Summary(w, sweep[w], IF outcome = "ok" THEN 1 ELSE 0,
                                  outcome = "fail", FALSE)
    /\ sweep' = [DisturbOther(sweep, w) EXCEPT ![w] = SweepIdle]
    /\ cur' = IF w = "ready" THEN Idle ELSE cur
    /\ UNCHANGED <<cfg, alloc, bound, cmd, loc, spawnQ, lockWaiters, escaped, hung, swept, events,
                   start, tally>>

\* -------------------------------------------------------------------- Next
Next ==
    \/ \E m \in Members, to \in ChannelIds \cup {0} : MemberMove(m, to)
    \/ ReadyEvent
    \/ InitStart
    \/ LeaveStart
    \/ LeaveResume
    \/ JoinStart
    \/ JoinResume
    \/ ReadyStart
    \/ ReadyResume
    \/ LeaveDeleteDone
    \/ CreateDone
    \/ RemoteSilent
    \/ \E w \in {"init", "ready"}, c \in ChannelIds : SweepSend(w, c)
    \/ \E w \in {"init", "ready"}, c \in ChannelIds : SweepDeleteDone(w, c)
    \/ \E w \in {"init", "ready"} : SweepCreateDone(w)

Spec == Init /\ [][Next]_vars

TypeOK ==
    /\ cfg \in Configs
    /\ DOMAIN channels \subseteq ChannelIds
    /\ loc \in [Members -> DOMAIN channels \cup {0, Outside}]
    /\ cur.kind \in {"none", "leave", "join", "ready"}
    /\ escaped \subseteq {"init", "ready", "leave", "join"}
    /\ events \in 0..MaxEvents

\* ================================================================== claims
\* no task is scheduled, waiting or between an observation and its calls
Quiescent ==
    /\ spawnQ = <<>> /\ lockWaiters = <<>> /\ cur = Idle
    /\ \A w \in DOMAIN sweep : sweep[w].pc = "idle"
    /\ ~hung

\* channels with zero counted members
CountedEmpty == {c \in DOMAIN channels : IsChannelEmpty(loc, c)}

PoolInvariant ==
    /\ Cardinality(CountedEmpty) <= 1
    /\ DOMAIN channels # {} => CountedEmpty # {}

\* C1: starting with at most one empty channel, once every handler has
\* completed (all remote calls having succeeded, and the checks of
\* check_voice_channels having found nothing to do) the category has at most
\* one channel with zero counted members, an empty channel if it has
\* channels, and a channel if it had one at the start.
C1_PoolInvariant ==
    (Quiescent /\ Cardinality(start.empty) <= 1 /\ ~failed /\ escaped = {}
        /\ ~swept)
        => /\ PoolInvariant
           /\ start.chs # {} => DOMAIN channels # {}

\* a leave handler sends its delete call in this step
LeaveSendsDelete ==
    /\ cur'.kind = "leave" /\ cur'.pc = "delete"
    /\ ~(cur.kind = "leave" /\ cur.pc = "delete")

\* C3: the leave handler sends no delete for a vacated channel that is the
\* only empty channel of the category.
C3_NeverDeleteLastEmpty ==
    [][LeaveSendsDelete =>
          \E d \in DOMAIN channels \ {cur'.ch} : IsChannelEmpty(loc, d)]_vars

\* the pool decisions in progress: between the observation of the empty
\* channels and the return of the create/delete calls decided on it
Deciding ==
    {w \in DOMAIN sweep : sweep[w].pc \in {"deleting", "creating"}}
    \cup (IF cur.kind \in {"leave", "join"} THEN {cur.kind} ELSE {})

\* C4: at most one create/delete decision is in progress, counting the join
\* and leave handlers, on_ready and the check scheduled by the cog constructor.
C4_MutualExclusion == Cardinality(Deciding) <= 1

\* a task suspended in acquire() that already observed the occupancy it will
\* act on: _handle_channel_leave tests is_channel_empty before `async with`
ObservedBeforeLock(t) == t.kind = "leave"

\* C5: every occupancy observation a handler acts on is made with the lock
\* held, so no task waits for the lock with such an observation in hand.
C5_LockScope == \A i \in DOMAIN lockWaiters : ~ObservedBeforeLock(lockWaiters[i])

\* C6: the empty-channel set the pool decisions use is the set of channels
\* for which is_channel_empty holds (bots not counted when ignore_bots).
C6_ConsistentOccupancy ==
    EmptyVoiceChannels(channels, loc) = CountedEmpty

\* --------------------------------------------------------- the leave race
\* Two leave handlers are scheduled for vacated channels a and b (the same
\* channel when its last two members left together); every other channel of
\* the category is occupied, so both handlers find no empty channel but the
\* vacated ones.
RaceInit ==
    /\ cfg \in {c \in Configs : ValidConfig(c)}
    /\ \E k \in 1..InitChannels :
          /\ k <= MaxChannels
          /\ channels = [c \in 1..k |-> InitName(c)]
          /\ loc \in [Members -> 0..k]
    /\ \E a, b \in DOMAIN channels :
          /\ spawnQ = <<Task("leave", a), Task("leave", b)>>
          /\ \A c \in DOMAIN channels :
                IF c \in {a, b} THEN MembersOf(loc, c) = {}
                ELSE ~IsChannelEmpty(loc, c)
    /\ lockWaiters = <<>>
    /\ cur = Idle
    /\ sweep = [w \in {"init", "ready"} |-> SweepIdle]
    /\ lastSweep = NoSweep
    /\ escaped = {}
    /\ failed = FALSE
    /\ hung = FALSE
    /\ swept = FALSE
    /\ events = 0
    /\ start = [chs |-> DOMAIN channels,
                empty |-> {c \in DOMAIN channels : IsChannelEmpty(loc, c)}]
    /\ tally = 0
    /\ alloc = NoAlloc
    /\ lastDelete = NoDelete
    /\ bound = Loaded
    /\ cmd = NoCmd

RaceNext ==
    \/ LeaveStart
    \/ LeaveResume
    \/ LeaveDeleteDone
    \/ CreateDone

RaceSpec == RaceInit /\ [][RaceNext]_vars

\* C2: two concurrent leave handlers that both find no empty channel create
\* exactly one channel in total (all remote calls succeeding).
C2_NoDoubleCreate ==
    (Quiescent /\ ~failed /\ escaped = {}) => tally = 1

\* both handlers have run to their end and one channel was created
C2_RaceSettled ==
    /\ Quiescent /\ ~failed /\ escaped = {}
    /\ tally = 1
    /\ Cardinality(EmptyVoiceChannels(channels, loc)) = 1

\* ------------------------------------------------------------- reconcile
\* C7: a reconcile sweep that runs alone with every remote call succeeding
\* ends with exactly one empty channel: several empty -> all but one deleted,
\* none created; none empty -> one created, none deleted; occupied channels
\* are never deleted.
C7_ReconcileRestores ==
    Clean(lastSweep) =>
        LET preEmpty == {c \in lastSweep.pre : IsChannelEmpty(loc, c)}
        IN /\ Cardinality(CountedEmpty) = 1
           /\ Cardinality(preEmpty) > 1 =>
                 /\ lastSweep.created = 0
                 /\ lastSweep.ok \subseteq preEmpty
                 /\ Cardinality(lastSweep.ok) = Cardinality(preEmpty) - 1
           /\ preEmpty = {} => lastSweep.created = 1 /\ lastSweep.ok = {}
           /\ (lastSweep.pre \ preEmpty) \subseteq DOMAIN channels

\* C8: a reconcile that directly follows a reconcile whose remote calls all
\* succeeded, with no event in between, sends no create and no delete call and
\* leaves the channel set unchanged.
C8_ReconcileIdempotent ==
    (lastSweep.who # "none" /\ lastSweep.second) =>
        /\ lastSweep.ok = {} /\ lastSweep.bad = {}
        /\ lastSweep.created = 0 /\ ~lastSweep.createBad
        /\ Len(lastSweep.found) = 1
        /\ DOMAIN channels = lastSweep.pre

\* a second reconcile has returned right after one that changed the category
C8_SecondSweepSeen ==
    /\ lastSweep.who # "none" /\ lastSweep.second /\ lastSweep.prevWorked
    /\ lastSweep.alone

\* C9: a sweep that finds k > 1 empty channels sends a delete for each of the
\* k-1 surplus channels whatever subset of them fails, returns without
\* raising, and (nothing else running) the channels whose delete succeeded are
\* gone and those whose delete failed remain.
C9_PartialFailure ==
    (lastSweep.who # "none" /\ Len(lastSweep.found) > 1) =>
        /\ lastSweep.ok \cup lastSweep.bad = Range(Tail(lastSweep.found))
        /\ ~lastSweep.raised
        /\ lastSweep.who \notin escaped
        /\ lastSweep.alone =>
              /\ lastSweep.ok \cap DOMAIN channels = {}
              /\ lastSweep.bad \subseteq DOMAIN channels
              /\ Head(lastSweep.found) \in DOMAIN channels

\* a sweep has returned with one surplus delete failed and another succeeded
C9_MixedOutcome ==
    /\ lastSweep.who # "none" /\ lastSweep.alone
    /\ lastSweep.ok # {} /\ lastSweep.bad # {}

\* C10: no failure of a remote call or of the name allocation propagates out
\* of on_ready or on_voice_state_update.
C10_FailureContainment == escaped \cap {"ready", "leave", "join"} = {}

\* ------------------------------------------------------- the leave handler
\* the awaited delete of the vacated channel returns with a failure
DeleteFailedStep ==
    /\ cur.kind = "leave" /\ cur.pc = "delete"
    /\ cur'.pc \notin {"delete", "noreply"}
    /\ cur.ch \in DOMAIN channels'

\* the create awaited by a leave handler returns
LeaveCreateReturns ==
    /\ cur.kind = "leave" /\ cur.pc = "create"
    /\ cur'.pc \notin {"create", "noreply"}

\* channels with zero counted members once the step is over
CountedEmptyAfter == {c \in DOMAIN channels' : IsChannelEmpty(loc', c)}

\* C11: when the delete of the vacated channel fails the leave handler still
\* looks for empty channels and sends one create if there is none, and none
\* otherwise; nothing is raised by the delete or by the create, and once the
\* create has returned the handler is over (no second delete or create).
C11_IndependentDeleteCreate ==
    [][/\ DeleteFailedStep =>
             /\ escaped' = escaped /\ ~hung'
             /\ (cur'.pc = "create") <=> (CountedEmptyAfter = {})
             /\ cur'.pc # "create" => cur' = Idle
       /\ LeaveCreateReturns => (cur' = Idle /\ escaped' = escaped)]_vars

\* ------------------------------------------------------- bounded waiting
\* the task that holds the lock can still finish and release it
HolderCanFinish == ENABLED (Next /\ cur' = Idle)

\* C13: a handler whose remote call never responds does not keep the lock:
\* the call is abandoned, so a step that ends the handler and frees the lock
\* for the waiting handlers remains possible.
C13_BoundedRemoteCalls == cur.pc = "noreply" => HolderCanFinish

\* ------------------------------------------------------------ self-healing
\* The category has drifted while nothing was running (the constructor's
\* check is long over); one more gateway event is delivered and its handlers
\* run to their end.
HealInit ==
    /\ cfg \in {c \in Configs : ValidConfig(c)}
    /\ \E k \in 0..InitChannels :
          /\ k <= MaxChannels
          /\ channels = [c \in 1..k |-> InitName(c)]
          /\ loc \in [Members -> 0..k]
    /\ spawnQ = <<>>
    /\ lockWaiters = <<>>
    /\ cur = Idle
    /\ sweep = [w \in {"init", "ready"} |-> SweepIdle]
    /\ lastSweep = NoSweep
    /\ escaped = {}
    /\ failed = FALSE
    /\ hung = FALSE
    /\ swept = FALSE
    /\ events = MaxEvents - 1
    /\ start = [chs |-> DOMAIN channels,
                empty |-> {c \in DOMAIN channels : IsChannelEmpty(loc, c)}]
    /\ tally = -1
    /\ alloc = NoAlloc
    /\ lastDelete = NoDelete
    /\ bound = Loaded
    /\ cmd = NoCmd

HealNext ==
    \/ \E m \in Members, to \in ChannelIds \cup {0} : MemberMove(m, to)
    \/ ReadyEvent
    \/ LeaveStart
    \/ LeaveResume
    \/ JoinStart
    \/ JoinResume
    \/ ReadyStart
    \/ LeaveDeleteDone
    \/ CreateDone
    \/ \E c \in ChannelIds : SweepSend("ready", c)
    \/ \E c \in ChannelIds : SweepDeleteDone("ready", c)
    \/ SweepCreateDone("ready")

HealSpec == HealInit /\ [][HealNext]_vars

\* zero empty channels in a non-empty category, or more than one empty channel
Drifted(st) ==
    \/ st.chs # {} /\ st.empty = {}
    \/ Cardinality(st.empty) > 1

\* C12: from a drifted category with nothing in flight, once the next event
\* (a join, a leave or a ready) has been handled with every remote call
\* succeeding, the category has exactly one empty channel.
C12_SelfHealing ==
    (Quiescent /\ events = MaxEvents /\ ~failed /\ escaped = {}
        /\ Drifted(start))
        => Cardinality(CountedEmpty) = 1

\* ------------------------------------------------------ the name allocator
\* _get_next_channel_name() is a function of the configuration and of the
\* names of the channels of the category: it is applied once to every
\* configuration and category drawn below.
NameC == <<"C">>

\* the names the channels of the category carry (the platform accepts no
\* blank name; two channels may carry the same name)
ChannelNames ==
    {NameA, NameB, NameC, OverflowPlain,
     OverflowPlain \o Str(1), OverflowPlain \o Str(2)}

\* available_channel_names: any list[str], the empty list and blank entries
\* included
CandidateLists ==
    {<<>>, <<NameA>>, <<NameA, NameB>>, <<NameB, NameA>>,
     <<NameA, NameB, NameC>>, <<NameA, NameBlank, NameB>>}

AllocConfigs ==
    {[ignore_bots |-> FALSE, channel_order_strategy |-> s,
      ensure_unique_names |-> u, overflow_channel_name |-> o,
      available_channel_names |-> l] :
        s \in {"random", "first available"}, u \in BOOLEAN,
        o \in {OverflowNumbered, OverflowPlain}, l \in CandidateLists}

AllocInit ==
    /\ cfg \in {c \in AllocConfigs : ValidConfig(c)}
    /\ \E k \in 0..MaxChannels : channels \in [1..k -> ChannelNames]
    /\ loc = [m \in Members |-> 0]
    /\ spawnQ = <<>>
    /\ lockWaiters = <<>>
    /\ cur = Idle
    /\ sweep = [w \in {"init", "ready"} |-> SweepIdle]
    /\ lastSweep = NoSweep
    /\ escaped = {}
    /\ failed = FALSE
    /\ hung = FALSE
    /\ swept = FALSE
    /\ events = 0
    /\ start = [chs |-> DOMAIN channels, empty |-> DOMAIN channels]
    /\ tally = -1
    /\ alloc = NoAlloc
    /\ lastDelete = NoDelete
    /\ bound = Loaded
    /\ cmd = NoCmd

\* name = self._get_next_channel_name(): the configured list is read, never
\* written (random.sample returns a new list)
Allocate ==
    /\ alloc = NoAlloc
    /\ lastDelete = NoDelete
    /\ bound = Loaded
    /\ cmd = NoCmd
    /\ \E r \in GetNextChannelName(channels) :
          alloc' = [before |-> cfg.available_channel_names, result |-> r]
    /\ UNCHANGED <<cfg, lastDelete, bound, cmd, channels, loc, spawnQ, lockWaiters, cur, sweep,
                   lastSweep, escaped, failed, hung, swept, events, start, tally>>

AllocNext == Allocate

AllocSpec == AllocInit /\ [][AllocNext]_vars

\* some channel of the category carries the name
InUse(name) == \E c \in DOMAIN channels : channels[c] = name

Allocated == alloc # NoAlloc

\* indices of the configured candidates no channel carries
FreeCandidates ==
    {i \in 1..Len(cfg.available_channel_names) :
        ~InUse(cfg.available_channel_names[i])}

\* C14: under "first available", when some candidate is not in use the
\* allocator returns the unused candidate of smallest index in configured
\* order, and the configured list is left as it was.
C14_FirstAvailable ==
    (Allocated /\ cfg.channel_order_strategy = "first available"
        /\ FreeCandidates # {})
        => LET i0 == CHOOSE i \in FreeCandidates :
                        \A j \in FreeCandidates : i <= j
           IN /\ alloc.result = Named(cfg.available_channel_names[i0])
              /\ cfg.available_channel_names = alloc.before

\* C15: under "random", when some candidate is not in use the allocator
\* returns a candidate that is not in use, whatever permutation is drawn; the
\* overflow name is returned only when every candidate is in use.
C15_RandomAllocation ==
    (Allocated /\ cfg.channel_order_strategy = "random"
        /\ FreeCandidates # {})
        => /\ alloc.result.kind = "name"
           /\ \E i \in FreeCandidates :
                 alloc.result.name = cfg.available_channel_names[i]

\* the overflow template with {number} replaced by n
OverflowName(n) == Replace(cfg.overflow_channel_name, Placeholder, Str(n))

\* C16: under "first available" with ensure_unique_names, when every
\* candidate is in use (or there is none) the allocator returns the overflow
\* template numbered with the smallest n >= 1 whose name no channel carries.
C16_OverflowNumbering ==
    (Allocated /\ cfg.channel_order_strategy = "first available"
        /\ cfg.ensure_unique_names /\ FreeCandidates = {})
        => /\ alloc.result.kind = "name"
           /\ \E n \in 1..(Cardinality(DOMAIN channels) + 1) :
                 /\ alloc.result.name = OverflowName(n)
                 /\ ~InUse(OverflowName(n))
                 /\ \A j \in 1..(n - 1) : InUse(OverflowName(j))

\* with no candidate configured and the first numbered name taken, the
\* second numbered name has been returned
C16_SecondNumber ==
    /\ Allocated /\ cfg.channel_order_strategy = "first available"
    /\ cfg.ensure_unique_names /\ cfg.available_channel_names = <<>>
    /\ InUse(OverflowName(1))
    /\ alloc.result = Named(OverflowName(2))

\* C17: with ensure_unique_names off, when every candidate is in use the
\* allocator returns overflow_channel_name as configured: nothing is
\* substituted, whether or not a channel carries that name already.
C17_VerbatimOverflow ==
    (Allocated /\ ~cfg.ensure_unique_names /\ FreeCandidates = {})
        => alloc.result = Named(cfg.overflow_channel_name)

\* C18: for every valid configuration and every category the allocator
\* returns a name: it neither raises nor loops for ever.
C18_AllocationTerminates == Allocated => alloc.result.kind = "name"

\* ------------------------------------------------ which channel is deleted
\* the delete awaited by a leave handler returns and the vacated channel is gone
LeaveDeleted ==
    /\ cur.kind = "leave" /\ cur.pc = "delete"
    /\ cur'.pc \notin {"delete", "noreply"}
    /\ cur.ch \notin DOMAIN channels'

\* C19: when the leave handler deletes the vacated channel X while another
\* channel Y of the category is empty, X is the only channel that goes, no
\* create is sent, the handler ends, and the empty channels afterwards are
\* those that were empty besides X.
C19_DeletesVacatedOnly ==
    [][(LeaveDeleted
          /\ \E y \in DOMAIN channels \ {cur.ch} : IsChannelEmpty(loc, y))
        => /\ DOMAIN channels' = DOMAIN channels \ {cur.ch}
           /\ cur' = Idle
           /\ escaped' = escaped /\ ~hung'
           /\ CountedEmptyAfter = CountedEmpty \ {cur.ch}]_vars

\* -------------------------------------------------------- the join handler
\* a join handler enters `async with self._channel_lock` in this step
JoinDecides ==
    /\ ~hung
    /\ \/ /\ spawnQ # <<>> /\ Head(spawnQ).kind = "join"
          /\ spawnQ' = Tail(spawnQ) /\ LockFree
       \/ /\ lockWaiters # <<>> /\ Head(lockWaiters).kind = "join"
          /\ lockWaiters' = Tail(lockWaiters) /\ cur = Idle

\* the create awaited by a join handler returns
JoinCreateReturns ==
    /\ cur.kind = "join" /\ cur.pc = "create"
    /\ cur'.pc \notin {"create", "noreply"}

\* what C20 asks of a step of the join handler
JoinContract ==
    /\ JoinDecides =>
          /\ (cur'.kind = "join" /\ cur'.pc = "create") <=> (CountedEmpty = {})
          /\ CountedEmpty # {} => cur' = Idle
          /\ channels' = channels
          /\ escaped' = escaped /\ ~hung'
    /\ JoinCreateReturns =>
          /\ cur' = Idle /\ escaped' = escaped
          /\ DOMAIN channels \subseteq DOMAIN channels'
          /\ Cardinality(DOMAIN channels') <= Cardinality(DOMAIN channels) + 1

\* C20: with the lock held the join handler sends one create if no channel
\* of the category is empty and none otherwise, never a delete; when the
\* create returns the handler ends, nothing having been raised, and a failed
\* create leaves the channel set as it was.
C20_JoinDecision == [][JoinContract]_vars

\* ------------------------------------------------- delete of a gone channel
\* C21: when the platform answers NotFound, delete_channel does not raise and
\* its caller goes on as after a delete that succeeded: the leave handler
\* looks for empty channels and sends its create exactly when there is none,
\* the sweep counts the channel among those it deleted.
C21_NotFoundIsSuccess ==
    lastDelete.response = "NotFound" =>
        /\ ~lastDelete.raised
        /\ lastDelete.ch \notin DOMAIN channels
        /\ lastDelete.who = "leave" =>
              (NoneEmpty(channels, loc)
                  <=> (cur.pc \in {"create", "hung"} \/ "leave" \in escaped))
        /\ lastDelete.who \in {"init", "ready"} =>
              LET s == sweep[lastDelete.who]
              IN IF s.pc = "idle"
                 THEN lastDelete.ch \in lastSweep.ok \ lastSweep.bad
                 ELSE lastDelete.ch \in s.ok \ s.bad

\* a leave handler was told NotFound and went on to send its create
C21_LeaveAfterNotFound ==
    /\ lastDelete.response = "NotFound" /\ lastDelete.who = "leave"
    /\ cur.kind = "leave" /\ cur.pc = "create"

\* ------------------------------------------------------------ the commands
\* /voice_channel set_limit, reset_limit and rename act on the voice channel
\* the calling member is in; they take no lock and touch one channel only.
MaxUserLimit == 99
RateLimited == 429

\* e.status of the HTTPException raised by channel.edit()
HttpStatuses == {400, 403, RateLimited, 500}

\* what channel.edit() may do: return, or raise HTTPException with a status
EditResponses ==
    {[raised |-> FALSE, status |-> 0]}
        \cup {[raised |-> TRUE, status |-> st] : st \in HttpStatuses}

\* values handed to set_limit: both ends of the range and their neighbours
LimitValues == {0 - 1, 0, 1, MaxUserLimit - 1, MaxUserLimit, MaxUserLimit + 1}

\* names handed to rename
NewNames == {NameA, NameB, NameC}

\* `1 <= value <= 99`, the range the slash option announces
InRangeFromOne(value) == 1 <= value /\ value <= MaxUserLimit

\* `0 <= value <= 99`
InRange(value) == 0 <= value /\ value <= MaxUserLimit

\* every failed edit is taken for a rate limit
IsRateLimitAlways(status) == TRUE

\* `e.status == 429`
IsRateLimit(status) == status = RateLimited

\* the category test is made only once the edit has failed
UnmanagedAfterEdit(ch, response) == ~ch.managed /\ response.raised

\* `if not self.is_channel_in_managed_category(channel): raise UnmanagedCategory`
Unmanaged(ch, response) == ~ch.managed

ServiceResult(raised, edits, ch) == [raised |-> raised, edits |-> edits, ch |-> ch]

\* VoiceChannelManagerService.set_limit
ServiceSetLimit(ch, value, response) ==
    IF ~InRange(value) THEN ServiceResult("ValueError", 0, ch)
    ELSE IF Unmanaged(ch, response) THEN ServiceResult("UnmanagedCategory", 0, ch)
    ELSE IF ~response.raised
    THEN ServiceResult("none", 1, [ch EXCEPT !.user_limit = value])
    ELSE ServiceResult("VoiceChannelManagerException", 1, ch)

\* VoiceChannelManagerService.rename
ServiceRename(ch, name, response) ==
    IF Unmanaged(ch, response) THEN ServiceResult("UnmanagedCategory", 0, ch)
    ELSE IF ~response.raised
    THEN ServiceResult("none", 1, [ch EXCEPT !.name = name])
    ELSE IF IsRateLimit(response.status) THEN ServiceResult("RateLimitExceeded", 1, ch)
    ELSE ServiceResult("VoiceChannelManagerException", 1, ch)

\* a command has run to its end: what the service raised, what left the
\* handler, and the message the handler sent
Ran(op, value, name, before, r, raised, reply) ==
    [pc |-> "done", inVoice |-> TRUE, ch |-> r.ch, op |-> op,
     value |-> value, name |-> name,
     before |-> before, service |-> r.raised, edits |-> r.edits,
     raised |-> raised, reply |-> reply]

\* _get_user_channel found the member in no voice channel
NotInVoice(op, value, name) ==
    [cmd EXCEPT !.pc = "done", !.op = op, !.value = value, !.name = name,
                !.before = cmd.ch,
                !.service = "none", !.edits = 0, !.raised = "none",
                !.reply = "You must be in a voice channel"]

CmdFrame ==
    UNCHANGED <<cfg, channels, loc, spawnQ, lockWaiters, cur, sweep, lastSweep,
                escaped, failed, hung, swept, events, start, tally, alloc,
                lastDelete, bound>>

\* VoiceChannelManagerHandler.set_limit
SetLimitCommand(value, response) ==
    /\ cmd.pc \in {"idle", "done"}
    /\ cmd' = IF ~cmd.inVoice THEN NotInVoice("set_limit", value, <<>>)
              ELSE LET r == ServiceSetLimit(cmd.ch, value, response)
                   IN IF r.raised = "UnmanagedCategory"
                      THEN Ran("set_limit", value, <<>>, cmd.ch, r, "none",
                               "You cannot set the limit of this channel.")
                      ELSE IF r.raised = "ValueError"
                      THEN Ran("set_limit", value, <<>>, cmd.ch, r,
                               "VoiceChannelManagerException: Invalid user limit.",
                               "none")
                      ELSE IF r.raised = "none"
                      THEN Ran("set_limit", value, <<>>, cmd.ch, r, "none",
                               "User limit has been set")
                      ELSE Ran("set_limit", value, <<>>, cmd.ch, r, r.raised, "none")
    /\ CmdFrame

\* VoiceChannelManagerHandler.reset_limit
ResetLimitCommand(response) ==
    /\ cmd.pc \in {"idle", "done"}
    /\ cmd' = IF ~cmd.inVoice THEN NotInVoice("reset_limit", 0, <<>>)
              ELSE LET r == ServiceSetLimit(cmd.ch, 0, response)
                   IN IF r.raised = "UnmanagedCategory"
                      THEN Ran("reset_limit", 0, <<>>, cmd.ch, r, "none",
                               "You cannot reset the limit of this channel.")
                      ELSE IF r.raised = "none"
                      THEN Ran("reset_limit", 0, <<>>, cmd.ch, r, "none",
                               "User limit has been reset")
                      ELSE Ran("reset_limit", 0, <<>>, cmd.ch, r, r.raised, "none")
    /\ CmdFrame

\* VoiceChannelManagerHandler.rename
RenameCommand(name, response) ==
    /\ cmd.pc \in {"idle", "done"}
    /\ cmd' = IF ~cmd.inVoice THEN NotInVoice("rename", 0, name)
              ELSE LET r == ServiceRename(cmd.ch, name, response)
                   IN IF r.raised = "UnmanagedCategory"
                      THEN Ran("rename", 0, name, cmd.ch, r, "none",
                               "You cannot rename this channel.")
                      ELSE IF r.raised = "RateLimitExceeded"
                      THEN Ran("rename", 0, name, cmd.ch, r, "none",
                               "You can only rename a channel twice every 10 minutes.")
                      ELSE IF r.raised = "none"
                      THEN Ran("rename", 0, name, cmd.ch, r, "none",
                               "Voice channel has been renamed.")
                      ELSE Ran("rename", 0, name, cmd.ch, r, r.raised, "none")
    /\ CmdFrame

\* a member, in a voice channel or not, is about to use a command
CmdInit ==
    /\ cfg \in {c \in Configs : ValidConfig(c)}
    /\ channels = <<>>
    /\ loc = [m \in Members |-> 0]
    /\ spawnQ = <<>>
    /\ lockWaiters = <<>>
    /\ cur = Idle
    /\ sweep = [w \in {"init", "ready"} |-> SweepIdle]
    /\ lastSweep = NoSweep
    /\ escaped = {}
    /\ failed = FALSE
    /\ hung = FALSE
    /\ swept = FALSE
    /\ events = 0
    /\ start = [chs |-> {}, empty |-> {}]
    /\ tally = -1
    /\ alloc = NoAlloc
    /\ lastDelete = NoDelete
    /\ bound = Loaded
    /\ \E v \in BOOLEAN, g \in BOOLEAN, n \in NewNames,
          l \in {0, 1, MaxUserLimit} :
          cmd = [pc |-> "idle", inVoice |-> v,
                 ch |-> [managed |-> g, name |-> n, user_limit |-> l],
                 op |-> "none", value |-> 0, name |-> <<>>,
                 before |-> [managed |-> g, name |-> n, user_limit |-> l],
                 service |-> "none", edits |-> 0, raised |-> "none",
                 reply |-> "none"]

CmdNext ==
    \/ \E value \in LimitValues, response \in EditResponses :
          SetLimitCommand(value, response)
    \/ \E response \in EditResponses : ResetLimitCommand(response)
    \/ \E name \in NewNames, response \in EditResponses :
          RenameCommand(name, response)

CmdSpec == CmdInit /\ [][CmdNext]_vars

\* a command has run for a member who is in a voice channel
CommandRan(ops) == cmd.pc = "done" /\ cmd.inVoice /\ cmd.op \in ops

\* C22 as stated: on a channel outside the managed category set_limit (any
\* value), reset_limit and rename fail with UnmanagedCategory, send no edit and
\* leave name and user limit as they were.
C22_UnmanagedDenied ==
    (CommandRan({"set_limit", "reset_limit", "rename"}) /\ ~cmd.before.managed)
        => /\ cmd.service = "UnmanagedCategory"
           /\ cmd.edits = 0
           /\ cmd.ch = cmd.before

\* C22 amended: as above, with set_limit failing with UnmanagedCategory for
\* the values 0..99 and with ValueError for every other value (the range is
\* tested first); in both cases no edit is sent and nothing changes.
C22_UnmanagedDeniedInRange ==
    (CommandRan({"set_limit", "reset_limit", "rename"}) /\ ~cmd.before.managed)
        => /\ cmd.service =
                 (IF cmd.op = "set_limit"
                     /\ ~(0 <= cmd.value /\ cmd.value <= MaxUserLimit)
                  THEN "ValueError" ELSE "UnmanagedCategory")
           /\ cmd.edits = 0
           /\ cmd.ch = cmd.before

\* a rename was refused on a channel outside the managed category
C22_RenameRefused ==
    /\ CommandRan({"rename"}) /\ ~cmd.before.managed
    /\ cmd.service = "UnmanagedCategory"
    /\ cmd.reply = "You cannot rename this channel."

\* C23: a rename of a managed channel ends in exactly one of three ways,
\* fixed by the answer to the edit: success and the confirmation; status 429,
\* RateLimitExceeded and the rate-limit message; any other status and the
\* generic VoiceChannelManagerException, never RateLimitExceeded.
C23_RateLimitDistinction ==
    (CommandRan({"rename"}) /\ cmd.before.managed) =>
        /\ cmd.edits = 1
        /\ \/ /\ cmd.service = "none" /\ cmd.raised = "none"
              /\ cmd.reply = "Voice channel has been renamed."
              /\ cmd.ch = [cmd.before EXCEPT !.name = cmd.name]
           \/ /\ cmd.service = "RateLimitExceeded" /\ cmd.raised = "none"
              /\ cmd.reply = "You can only rename a channel twice every 10 minutes."
              /\ cmd.ch = cmd.before
           \/ /\ cmd.service = "VoiceChannelManagerException"
              /\ cmd.raised = "VoiceChannelManagerException"
              /\ cmd.reply = "none"
              /\ cmd.ch = cmd.before
        /\ \A response \in EditResponses :
              cmd = Ran("rename", 0, cmd.name, cmd.before,
                        ServiceRename(cmd.before, cmd.name, response),
                        cmd.raised, cmd.reply)
              => /\ (cmd.service = "none") <=> (~response.raised)
                 /\ (cmd.service = "RateLimitExceeded") <=> (response.raised /\ response.status = RateLimited)

\* a rename failed with a status other than 429
C23_GenericFailure ==
    /\ CommandRan({"rename"}) /\ cmd.before.managed
    /\ cmd.service = "VoiceChannelManagerException"

Targets == {"category", "text channel", "none"}

\* VoiceChannelManagerConfig._validate_category_id
SetCategory(target) == IF target = "category" THEN "none" ELSE "ValueError"

\* VoiceChannelManagerConfig.validate_category_permissions
ValidateCategoryPermissions(manage_channels) ==
    IF manage_channels THEN "none" ELSE "MissingPermissions"

\* only a bad id is turned into InvalidConfiguration
WrappedBadIdOnly(e) == e = "ValueError"

\* `except (ValueError, MissingPermissions) as e`
Wrapped(e) == e \in {"ValueError", "MissingPermissions"}

\* VoiceChannelManagerService.__init__: the exception that leaves it and the
\* exception it was raised from
ServiceInit(target, manage_channels) ==
    LET e == IF SetCategory(target) # "none" THEN SetCategory(target)
             ELSE ValidateCategoryPermissions(manage_channels)
    IN IF e = "none" THEN [error |-> "none", cause |-> "none"]
       ELSE IF Wrapped(e) THEN [error |-> "InvalidConfiguration", cause |-> e]
       ELSE [error |-> e, cause |-> "none"]

\* nothing that is raised ends the construction
AbortsNever(error) == FALSE

\* an exception raised in __init__ leaves it before the handler is created
Aborts(error) == error # "none"

\* VoiceChannelManager.__init__ runs: the configuration is validated, the
\* service binds the category, and only then the handler is created and
\* check_voice_channels() is scheduled.
Construct ==
    /\ bound.state = "constructing"
    /\ LET svc == IF ValidConfig(cfg)
                  THEN ServiceInit(bound.target, bound.manage_channels)
                  ELSE [error |-> "ValueError", cause |-> "none"]
           state == IF svc.error = "none" THEN "loaded"
                    ELSE IF svc.error \in {"ValueError", "InvalidConfiguration"}
                    THEN "LoadCogError"
                    ELSE svc.error
       IN /\ bound' = [bound EXCEPT !.state = state, !.error = svc.error,
                                    !.cause = svc.cause,
                                    !.handler = ~Aborts(svc.error)]
          /\ spawnQ' = IF Aborts(svc.error) THEN spawnQ
                       ELSE Append(spawnQ, Task("init", 0))
    /\ UNCHANGED <<cfg, channels, loc, lockWaiters, cur, sweep, lastSweep,
                   escaped, failed, hung, swept, events, start, tally, alloc,
                   lastDelete, cmd>>

\* a member moves while the cog is not loaded: no listener hears of it
UnheardMove(m, to) ==
    /\ bound.state \notin {"constructing", "loaded"}
    /\ events < MaxEvents
    /\ to \in DOMAIN channels \cup {0}
    /\ to # loc[m]
    /\ loc' = [loc EXCEPT ![m] = to]
    /\ events' = events + 1
    /\ UNCHANGED <<cfg, channels, spawnQ, lockWaiters, cur, sweep, lastSweep,
                   escaped, failed, hung, swept, start, tally, alloc,
                   lastDelete, bound, cmd>>

\* the bot is about to load the cog; one gateway event may follow
BindInit ==
    /\ cfg \in Configs
    /\ \E k \in 0..InitChannels :
          /\ k <= MaxChannels
          /\ channels = [c \in 1..k |-> InitName(c)]
          /\ loc \in [Members -> 0..k]
    /\ spawnQ = <<>>
    /\ lockWaiters = <<>>
    /\ cur = Idle
    /\ sweep = [w \in {"init", "ready"} |-> SweepIdle]
    /\ lastSweep = NoSweep
    /\ escaped = {}
    /\ failed = FALSE
    /\ hung = FALSE
    /\ swept = FALSE
    /\ events = MaxEvents - 1
    /\ start = [chs |-> DOMAIN channels,
                empty |-> {c \in DOMAIN channels : IsChannelEmpty(loc, c)}]
    /\ tally = -1
    /\ alloc = NoAlloc
    /\ lastDelete = NoDelete
    /\ \E t \in Targets, p \in BOOLEAN :
          bound = [target |-> t, manage_channels |-> p, state |-> "constructing",
                   error |-> "none", cause |-> "none", handler |-> FALSE]
    /\ cmd = NoCmd

BindNext ==
    \/ Construct
    \/ \E m \in Members, to \in ChannelIds \cup {0} : UnheardMove(m, to)
    \/ InitStart
    \/ \E c \in ChannelIds : SweepSend("init", c)
    \/ \E c \in ChannelIds : SweepDeleteDone("init", c)
    \/ SweepCreateDone("init")
    \/ HealNext

BindSpec == BindInit /\ [][BindNext]_vars

\* the configuration is valid and the service has tried to bind the category
BindingTried == bound.state # "constructing" /\ ValidConfig(cfg)

\* C25 as stated: an id that names no category fails with
\* InvalidConfiguration, and a category the bot may not manage fails with
\* MissingPermissions.
C25_BinderErrorKinds ==
    BindingTried =>
        /\ bound.target # "category" => bound.error = "InvalidConfiguration"
        /\ (bound.target = "category" /\ ~bound.manage_channels)
              => bound.error = "MissingPermissions"

\* C25 amended: both failures leave the binder as InvalidConfiguration; they
\* differ in the exception it is raised from, ValueError for an id that names
\* no category and MissingPermissions for a category the bot may not manage;
\* a category the bot may manage binds without error.
C25_BinderErrorCauses ==
    BindingTried =>
        /\ bound.target # "category"
              => bound.error = "InvalidConfiguration" /\ bound.cause = "ValueError"
        /\ (bound.target = "category" /\ ~bound.manage_channels)
              => /\ bound.error = "InvalidConfiguration"
                 /\ bound.cause = "MissingPermissions"
        /\ (bound.target = "category" /\ bound.manage_channels)
              => bound.error = "none"

\* the binder has refused a category the bot may not manage
C25_PermissionRefused ==
    /\ BindingTried
    /\ bound.target = "category" /\ ~bound.manage_channels
    /\ bound.error = "InvalidConfiguration"

\* the id names no category, or the bot may not manage the category
BindingFails(b) == b.target # "category" \/ ~b.manage_channels

\* C26: when the binding fails, the construction ends in LoadCogError, no
\* handler exists, no check_voice_channels() run is scheduled or running, no
\* task ever runs, and the category keeps the channels it had.
C26_BindingFailureFatal ==
    (bound.state # "constructing" /\ BindingFails(bound)) =>
        /\ bound.state = "LoadCogError"
        /\ ~bound.handler
        /\ spawnQ = <<>> /\ lockWaiters = <<>> /\ cur = Idle
        /\ \A w \in DOMAIN sweep : sweep[w].pc = "idle"
        /\ ~swept /\ ~failed /\ lastDelete = NoDelete
        /\ channels = [c \in start.chs |-> InitName(c)]

\* the cog has refused to load and a member has since emptied or left a channel
C26_RefusedThenMoved ==
    /\ bound.state = "LoadCogError" /\ BindingFails(bound) /\ ValidConfig(cfg)
    /\ events = MaxEvents
    /\ Cardinality({c \in DOMAIN channels : IsChannelEmpty(loc, c)}) # 1

\* the leave handler sends the delete of channel c in this step
LeaveIssuesDelete(c) == cur.pc # "delete" /\ cur'.pc = "delete" /\ cur'.ch = c

\* a check_voice_channels() run sends the delete of channel c in this step
SweepIssuesDelete(c) ==
    \E w \in DOMAIN sweep : c \in sweep'[w].sent /\ c \notin sweep[w].sent

\* C27: whenever the leave handler or a check_voice_channels() run sends a
\* delete, the target has zero counted members at that moment.
C27_NoOccupiedDelete ==
    [][\A c \in ChannelIds :
          (LeaveIssuesDelete(c) \/ SweepIssuesDelete(c)) => IsChannelEmpty(loc, c)]_vars

\* no two entries of a sequence are equal
Distinct(seq) == \A i, j \in DOMAIN seq : i # j => seq[i] # seq[j]

\* C28: with ensure_unique_names, a numbered overflow template and distinct
\* candidate names, no two channels of the category carry the same name.
C28_UniqueNames ==
    (/\ cfg.ensure_unique_names
     /\ Contains(cfg.overflow_channel_name, Placeholder)
     /\ Distinct(cfg.available_channel_names))
        => \A c, d \in DOMAIN channels : c # d => channels[c] # channels[d]

\* ------------------------------------------- events outside the category
\* The gateway delivers a voice-state update in which member m enters or
\* leaves the voice channel outside the managed category.
OutsideMove(m, to) ==
    /\ lastDelete' = NoDelete
    /\ bound.handler
    /\ ~hung /\ events < MaxEvents
    /\ to \in DOMAIN channels \cup {0, Outside}
    /\ to # loc[m]
    /\ loc[m] = Outside \/ to = Outside
    /\ loc' = [loc EXCEPT ![m] = to]
    /\ spawnQ' = spawnQ
                 \o (IF loc[m] # 0 THEN <<Task("leave", loc[m])>> ELSE <<>>)
                 \o (IF to # 0 THEN <<Task("join", to)>> ELSE <<>>)
    /\ events' = events + 1
    /\ sweep' = Disturb(sweep)
    /\ lastSweep' = NoSweep
    /\ UNCHANGED <<cfg, alloc, bound, cmd, channels, lockWaiters, cur, escaped,
                   failed, hung, swept, start, tally>>

\* The gateway delivers a voice-state update with before.channel ==
\* after.channel (mute, deafen, stream): on_voice_state_update returns at once.
SameChannelUpdate(m) ==
    /\ bound.handler
    /\ ~hung /\ events < MaxEvents
    /\ events' = events + 1
    /\ UNCHANGED <<cfg, channels, loc, spawnQ, lockWaiters, cur, sweep,
                   lastSweep, escaped, failed, hung, swept, start, tally, alloc,
                   lastDelete, bound, cmd>>

\* the cog is loaded, its start-up sweep is over, nobody is in the channel
\* outside the category yet
OutsideInit ==
    /\ cfg \in {c \in Configs : ValidConfig(c)}
    /\ \E k \in 0..InitChannels :
          /\ k <= MaxChannels
          /\ channels = [c \in 1..k |-> InitName(c)]
          /\ loc \in [Members -> 0..k]
    /\ spawnQ = <<>>
    /\ lockWaiters = <<>>
    /\ cur = Idle
    /\ sweep = [w \in {"init", "ready"} |-> SweepIdle]
    /\ lastSweep = NoSweep
    /\ escaped = {}
    /\ failed = FALSE
    /\ hung = FALSE
    /\ swept = FALSE
    /\ events = 0
    /\ start = [chs |-> DOMAIN channels,
                empty |-> {c \in DOMAIN channels : IsChannelEmpty(loc, c)}]
    /\ tally = -1
    /\ alloc = NoAlloc
    /\ lastDelete = NoDelete
    /\ bound = Loaded
    /\ cmd = NoCmd

OutsideNext ==
    \/ \E m \in Members, to \in ChannelIds \cup {0, Outside} : OutsideMove(m, to)
    \/ \E m \in Members : SameChannelUpdate(m)
    \/ ReadyResume
    \/ HealNext

OutsideSpec == OutsideInit /\ [][OutsideNext]_vars

\* a voice-state update with equal channels is delivered in this step
SameChannelStep == events' # events /\ spawnQ' = spawnQ

\* the task at the head of the queue starts in this step
TaskStarts(kinds) ==
    spawnQ # <<>> /\ Head(spawnQ).kind \in kinds /\ spawnQ' = Tail(spawnQ)

\* no create, no delete, and the lock neither taken nor waited for
NothingIssued ==
    /\ UNCHANGED <<channels, cur, lockWaiters, swept, escaped>>
    /\ \A w \in DOMAIN sweep :
          /\ sweep'[w].pc = sweep[w].pc
          /\ sweep'[w].toSend = sweep[w].toSend
          /\ sweep'[w].sent = sweep[w].sent

\* C29: a voice-state update with equal channels starts nothing; the leave
\* and join sub-handlers of a channel outside the managed category, and the
\* leave sub-handler of a managed channel that still has counted members, end
\* without a create, without a delete and without touching the lock.
C29_OutsideEventsInert ==
    [][/\ SameChannelStep => NothingIssued
       /\ (TaskStarts({"leave", "join"}) /\ Head(spawnQ).ch = Outside)
             => NothingIssued
       /\ (TaskStarts({"leave"}) /\ Head(spawnQ).ch # Outside
               /\ ~IsChannelEmpty(loc, Head(spawnQ).ch))
             => NothingIssued]_vars

\* every member has moved from no channel to the channel outside the
\* category, every sub-handler has run, and the category is as it was
C29_AllMovedOutside ==
    /\ \A m \in Members : loc[m] = Outside
    /\ events = MaxEvents /\ Quiescent
    /\ start.chs # {} /\ start.empty = start.chs
    /\ channels = [c \in start.chs |-> InitName(c)]

\* the next step of the handler that holds the lock: one of its remote calls
\* returns or raises, or its sweep sends the next gathered delete
HolderStep ==
    \/ LeaveDeleteDone
    \/ CreateDone
    \/ \E c \in ChannelIds : SweepSend("ready", c)
    \/ \E c \in ChannelIds : SweepDeleteDone("ready", c)
    \/ SweepCreateDone("ready")

\* C30: while every remote call is answered, the handler that holds the lock
\* can always take its next step towards releasing it, so it never keeps the
\* lock for ever and the waiting handlers get their turn.
C30_LockReleased ==
    (cur # Idle /\ cur.pc # "noreply") => ENABLED HolderStep

====
